---- MODULE Spec2Model ----
(***************************************************************************)
(* Model of js/main.js (Koku Kitchen page-interaction controller).         *)
(*                                                                         *)
(* The state is the part of the DOM the script reads and writes (class     *)
(* lists, the aria-expanded attribute, the body overflow style, the link   *)
(* highlight), the window (innerWidth, scrollY), the script's module-level *)
(* variables (isScrolling, resizeTimer) and the host's queue of            *)
(* animation-frame callbacks.  One action is one dispatched event with     *)
(* every listener the script registered for it, in registration order.     *)
(*                                                                         *)
(* Strings the script inspects (href, id) are sequences of characters.     *)
(***************************************************************************)
EXTENDS Integers, Sequences, FiniteSets, TLC

VARIABLES
    menu,           \* navLinks/menuToggle 'active', aria-expanded, body overflow
    innerWidth,     \* window.innerWidth
    scrollY,        \* window.scrollY
    headerScrolled, \* header.classList.contains('scrolled')
    isScrolling,    \* let isScrolling (line 87)
    rafQueue,       \* callbacks handed to requestAnimationFrame, in order
    linkActive,     \* per nav link: classList.contains('active')
    sections,       \* document.querySelectorAll('section[id]'), document order
    resizeTimer,    \* TRUE iff the handle in resizeTimer names a pending timeout
    scrollSeen,     \* history: a scroll event has been dispatched
    ev,             \* history: the event dispatched last (kind, argument, key or detail)
    pre,            \* history: menu as it was before that event
    out,            \* what the last dispatch did: preventDefault, scrollTo calls, throw
    anchors,        \* every <a> of the document with its target and rel
    animStyle,      \* inline style of each '.feature-card, .about-text, .cta-content'
    domContentLoaded, \* the DOMContentLoaded listener has run
    bodyLoaded,     \* document.body.classList.contains('loaded')
    timeouts,       \* pending setTimeout callbacks, oldest first: ms left until due
    sinceResize,    \* history: ms since the last resize event (-1: none yet)
    burst           \* history: resize events of the current burst, callback runs since

pageVars == <<anchors, animStyle, domContentLoaded, bodyLoaded>>

clockVars == <<timeouts, sinceResize, burst>>

vars == <<menu, innerWidth, scrollY, headerScrolled, isScrolling, rafQueue,
          linkActive, sections, resizeTimer, scrollSeen, ev, pre, out,
          anchors, animStyle, domContentLoaded, bodyLoaded,
          timeouts, sinceResize, burst>>

----------------------------------------------------------------------------
(* Bounds of the model and constants of the program *)

MaxScrollSteps == 5

MobileBreakpoint == 768
HeaderThreshold == 100
NavLookAhead == 150
HeaderOffsetHeight == 80
DebounceDelay == 250

\* the clock advances in steps of half the debounce delay
TimeStep == DebounceDelay \div 2

ScrollOffsets == {100 * k : k \in 0..MaxScrollSteps}
                    \cup {HeaderThreshold, HeaderThreshold + 1}

Widths == {480, MobileBreakpoint, MobileBreakpoint + 1}

Keys == {"Escape", "Enter"}

----------------------------------------------------------------------------
(* The document *)

Href(s) == [present |-> TRUE, chars |-> s]
NoHref == [present |-> FALSE, chars |-> <<>>]

\* the anchors matched by '.nav-links a', in document order
navLinkItems ==
    << Href(<<"#", "a">>),      \* fragment, section a
       Href(<<"#", "b">>),      \* fragment, section b
       Href(<<"#", "z">>),      \* fragment, no such element
       Href(<<"#">>),           \* bare '#'
       Href(<<"m">>),           \* not a fragment reference
       NoHref >>                \* anchor without an href attribute

Links == 1..Len(navLinkItems)

Section(id, top, height) ==
    [id |-> id, offsetTop |-> top, offsetHeight |-> height]

\* two non-overlapping sections: a starts at t, b follows after a gap g
Layout(t, g) ==
    << Section(<<"a">>, t, 200), Section(<<"b">>, t + 200 + g, 200) >>

Layouts == {Layout(t, g) : t \in {0, 200}, g \in {0, 100}}

\* document.getElementById(id): <<element>> or <<>> for null
getElementById(id) ==
    SelectSeq(sections, LAMBDA s : s.id = id)

\* String.prototype.startsWith('#')
startsWithHash(chars) == Len(chars) >= 1 /\ chars[1] = "#"

\* String.prototype.substring(1)
substring1(chars) == IF chars = <<>> THEN <<>> ELSE Tail(chars)

----------------------------------------------------------------------------
(* External links *)

Rel(s) == [present |-> TRUE, value |-> s]
NoRel == [present |-> FALSE, value |-> ""]

\* the anchors of the document as the markup has them
markupAnchors ==
    << [targetBlank |-> TRUE,  rel |-> NoRel],
       [targetBlank |-> TRUE,  rel |-> Rel("nofollow")],
       [targetBlank |-> TRUE,  rel |-> Rel("")],
       [targetBlank |-> FALSE, rel |-> NoRel],
       [targetBlank |-> FALSE, rel |-> Rel("author")] >>

hardenExternalLinksOverwrite(as) ==
    [i \in DOMAIN as |->
        IF as[i].targetBlank
        THEN [as[i] EXCEPT !.rel = Rel("noopener noreferrer")]
        ELSE as[i]]

\* document.querySelectorAll('a[target="_blank"]').forEach of lines 233-238
hardenExternalLinks(as) ==
    [i \in DOMAIN as |->
        IF as[i].targetBlank /\ ~as[i].rel.present
        THEN [as[i] EXCEPT !.rel = Rel("noopener noreferrer")]
        ELSE as[i]]

----------------------------------------------------------------------------
(* Visibility animator *)

\* the elements matched by '.feature-card, .about-text, .cta-content'
AnimElems == {1, 2}

UnsetStyle  == [opacity |-> "",  transform |-> "",                 transition |-> ""]
HiddenStyle == [opacity |-> "0", transform |-> "translateY(30px)",
                transition |-> "opacity 0.6s ease, transform 0.6s ease"]

\* the IntersectionObserver callback of lines 176-183 on one entry
revealOnEntryAlways(style, isIntersecting) ==
    IF isIntersecting
    THEN [style EXCEPT !.opacity = "1", !.transform = "translateY(0)"]
    ELSE [style EXCEPT !.opacity = "0", !.transform = "translateY(30px)"]

revealOnEntry(style, isIntersecting) ==
    IF isIntersecting
    THEN [style EXCEPT !.opacity = "1", !.transform = "translateY(0)"]
    ELSE style

----------------------------------------------------------------------------
(* Mobile menu *)

MenuStates ==
    [navLinksActive : BOOLEAN, menuToggleActive : BOOLEAN,
     ariaExpanded : {"absent", "true", "false"}, bodyOverflow : {"", "hidden"}]

\* String(boolean), as setAttribute stores it
BoolString(b) == IF b THEN "true" ELSE "false"

toggleMenuStuckOverflow(m) ==
    LET isExpanded == ~m.navLinksActive
    IN  [navLinksActive   |-> isExpanded,
         menuToggleActive |-> ~m.menuToggleActive,
         ariaExpanded     |-> BoolString(isExpanded),
         bodyOverflow     |-> "hidden"]

toggleMenu(m) ==
    LET isExpanded == ~m.navLinksActive
    IN  [navLinksActive   |-> isExpanded,
         menuToggleActive |-> ~m.menuToggleActive,
         ariaExpanded     |-> BoolString(isExpanded),
         bodyOverflow     |-> IF isExpanded THEN "hidden" ELSE ""]

closeMenuKeepsOverflow(m) ==
    [navLinksActive   |-> FALSE,
     menuToggleActive |-> FALSE,
     ariaExpanded     |-> "false",
     bodyOverflow     |-> m.bodyOverflow]

closeMenuLocksScroll(m) ==
    [navLinksActive   |-> FALSE,
     menuToggleActive |-> FALSE,
     ariaExpanded     |-> "false",
     bodyOverflow     |-> "hidden"]

closeMenu(m) ==
    [navLinksActive   |-> FALSE,
     menuToggleActive |-> FALSE,
     ariaExpanded     |-> "false",
     bodyOverflow     |-> ""]

\* link.addEventListener('click', ...) of lines 52-58
navLinkCloseListenerStrict(m, w) ==
    IF w < MobileBreakpoint THEN closeMenu(m) ELSE m

navLinkCloseListener(m, w) ==
    IF w <= MobileBreakpoint THEN closeMenu(m) ELSE m

documentClickListenerIgnoresInside(m, w, isClickInsideNav, isClickOnToggle) ==
    IF w <= MobileBreakpoint /\ ~isClickOnToggle /\ m.navLinksActive
    THEN closeMenu(m)
    ELSE m

documentClickListenerIgnoresToggle(m, w, isClickInsideNav, isClickOnToggle) ==
    IF w <= MobileBreakpoint /\ ~isClickInsideNav /\ m.navLinksActive
    THEN closeMenu(m)
    ELSE m

\* document.addEventListener('click', ...) of lines 61-70
documentClickListener(m, w, isClickInsideNav, isClickOnToggle) ==
    IF w <= MobileBreakpoint
       /\ ~isClickInsideNav /\ ~isClickOnToggle /\ m.navLinksActive
    THEN closeMenu(m)
    ELSE m

\* document.addEventListener('keydown', ...) of lines 246-250
keydownListenerAlways(m, key) ==
    IF key = "Escape" THEN closeMenu(m) ELSE m

keydownListener(m, key) ==
    IF key = "Escape" /\ m.navLinksActive THEN closeMenu(m) ELSE m

\* the menu part of window.addEventListener('resize', ...) of lines 204-208
resizeListenerGe(m, w) ==
    IF w >= MobileBreakpoint /\ m.navLinksActive THEN closeMenu(m) ELSE m

resizeListener(m, w) ==
    IF w > MobileBreakpoint /\ m.navLinksActive THEN closeMenu(m) ELSE m

----------------------------------------------------------------------------
(* Resize debounce.  resizeTimer holds the handle of the timeout created   *)
(* last; when that timeout is still pending it is the last of timeouts.    *)

Min(a, b) == IF a < b THEN a ELSE b

RemoveAt(q, i) == SubSeq(q, 1, i - 1) \o SubSeq(q, i + 1, Len(q))

resizeDebounceNoClear(ts, live) ==
    Append(ts, DebounceDelay)

resizeDebounceShort(ts, live) ==
    Append(IF live THEN RemoveAt(ts, Len(ts)) ELSE ts, TimeStep)

\* clearTimeout(resizeTimer); resizeTimer = setTimeout(..., 250) of lines 211-214
resizeDebounce(ts, live) ==
    Append(IF live THEN RemoveAt(ts, Len(ts)) ELSE ts, DebounceDelay)

\* some pending timeout is due
TimeoutDue == \E i \in DOMAIN timeouts : timeouts[i] <= 0

----------------------------------------------------------------------------
(* Header scroll effect *)

handleScrollGe(y) == y >= HeaderThreshold

\* header has 'scrolled' after handleScroll() at offset y
handleScroll(y) == y > HeaderThreshold

----------------------------------------------------------------------------
(* Smooth scroll *)

NoEffect == [defaultPrevented |-> FALSE, scrollTo |-> <<>>, threw |-> FALSE]

smoothScrollListenerNoHeader(href) ==
    IF ~href.present
    THEN [NoEffect EXCEPT !.threw = TRUE]
    ELSE IF startsWithHash(href.chars)
         THEN LET targetElement == getElementById(substring1(href.chars))
              IN  IF targetElement # <<>>
                  THEN [defaultPrevented |-> TRUE,
                        scrollTo |-> << targetElement[1].offsetTop >>,
                        threw |-> FALSE]
                  ELSE NoEffect
         ELSE NoEffect

smoothScrollListenerEager(href) ==
    IF ~href.present
    THEN [NoEffect EXCEPT !.threw = TRUE]
    ELSE IF startsWithHash(href.chars)
         THEN LET targetElement == getElementById(substring1(href.chars))
              IN  IF targetElement # <<>>
                  THEN [defaultPrevented |-> TRUE,
                        scrollTo |-> << targetElement[1].offsetTop - HeaderOffsetHeight >>,
                        threw |-> FALSE]
                  ELSE [NoEffect EXCEPT !.defaultPrevented = TRUE]
         ELSE NoEffect

\* link.addEventListener('click', (e) => ...) of lines 105-128;
\* href is null for an anchor without the attribute, and null.startsWith throws
smoothScrollListener(href) ==
    IF ~href.present
    THEN [NoEffect EXCEPT !.threw = TRUE]
    ELSE IF startsWithHash(href.chars)
         THEN LET targetElement == getElementById(substring1(href.chars))
              IN  IF targetElement # <<>>
                  THEN [defaultPrevented |-> TRUE,
                        scrollTo |-> << targetElement[1].offsetTop - HeaderOffsetHeight >>,
                        threw |-> FALSE]
                  ELSE NoEffect
         ELSE NoEffect

----------------------------------------------------------------------------
(* Active navigation highlight *)

\* the section's span contains scrollPos (line 145)
InSpan(s, scrollPos) ==
    scrollPos >= s.offsetTop /\ scrollPos < s.offsetTop + s.offsetHeight

\* the inner navLinkItems.forEach of lines 146-151 for one matching section
MarkLinks(sectionId) ==
    [l \in Links |->
        navLinkItems[l].present /\ navLinkItems[l].chars = <<"#">> \o sectionId]

RECURSIVE ForEachSection(_, _, _)
ForEachSection(secs, scrollPos, active) ==
    IF secs = <<>> THEN active
    ELSE ForEachSection(Tail(secs), scrollPos,
                        IF InSpan(Head(secs), scrollPos)
                        THEN MarkLinks(Head(secs).id)
                        ELSE active)

\* linkActive after updateActiveNav() at offset y
updateActiveNav(secs, y, active) ==
    ForEachSection(secs, y + NavLookAhead, active)

----------------------------------------------------------------------------
(* Scroll listeners and the animation-frame queue *)

headerScrollListenerNoRequest(flag) ==
    IF ~flag THEN << <<>>, TRUE >> ELSE << <<>>, flag >>

headerScrollListenerNoFlag(flag) ==
    IF ~flag THEN << <<"handleScroll">>, FALSE >> ELSE << <<>>, flag >>

\* window.addEventListener('scroll', ...) of lines 88-96:
\* <<callbacks requested, isScrolling afterwards>>
headerScrollListener(flag) ==
    IF ~flag THEN << <<"handleScroll">>, TRUE >> ELSE << <<>>, flag >>

\* window.addEventListener('scroll', ...) of lines 157-163: callbacks requested
navScrollListener(flag) ==
    IF ~flag THEN <<"updateActiveNav">> ELSE <<>>

\* the number of queued callbacks that will call handleScroll
PendingHeaderUpdates(q) == Len(SelectSeq(q, LAMBDA c : c = "handleScroll"))

\* run the queued callbacks in order on [scrolled, flag, active]
RECURSIVE RunCallbacks(_, _)
RunCallbacks(q, st) ==
    IF q = <<>> THEN st
    ELSE RunCallbacks(Tail(q),
            IF Head(q) = "handleScroll"
            THEN [st EXCEPT !.scrolled = handleScroll(scrollY), !.flag = FALSE]
            ELSE [st EXCEPT !.active = updateActiveNav(sections, scrollY, st.active)])

----------------------------------------------------------------------------
(* Initial state: the script has run to the end on a loaded document whose *)
(* menu is closed.  The markup may or may not give the toggle an           *)
(* aria-expanded="false" attribute; the page may load scrolled.            *)

Event(kind, arg, key) == [kind |-> kind, arg |-> arg, key |-> key]

Init ==
    /\ menu \in {m \in MenuStates :
                    /\ ~m.navLinksActive /\ ~m.menuToggleActive
                    /\ m.ariaExpanded \in {"absent", "false"}
                    /\ m.bodyOverflow = ""}
    /\ innerWidth \in Widths
    /\ scrollY \in ScrollOffsets
    /\ headerScrolled = FALSE
    /\ isScrolling = FALSE
    /\ rafQueue = <<>>
    /\ linkActive = [l \in Links |-> FALSE]
    /\ sections \in Layouts
    /\ resizeTimer = FALSE
    /\ scrollSeen = FALSE
    /\ ev = Event("init", 0, "")
    /\ pre = menu
    /\ out = NoEffect
    /\ anchors = hardenExternalLinks(markupAnchors)
    /\ animStyle = [e \in AnimElems |-> UnsetStyle]
    /\ domContentLoaded = FALSE
    /\ bodyLoaded = FALSE
    /\ timeouts = <<>>
    /\ sinceResize = -1
    /\ burst = [events |-> 0, runs |-> 0]

----------------------------------------------------------------------------
(* Events *)

MenuEvent(e, m, o) ==
    /\ menu' = m
    /\ pre' = menu
    /\ ev' = e
    /\ out' = o
    /\ UNCHANGED <<scrollY, headerScrolled, isScrolling, rafQueue,
                   linkActive, sections, scrollSeen>>
    /\ UNCHANGED pageVars

\* click on the toggle button: toggleMenu, then the document listener
ToggleClick ==
    /\ MenuEvent(Event("toggleClick", IF ev.kind = "toggleClick" THEN 2 ELSE 1, ""),
                 documentClickListener(toggleMenu(menu), innerWidth, FALSE, TRUE),
                 NoEffect)
    /\ UNCHANGED <<innerWidth, resizeTimer, timeouts, sinceResize, burst>>

\* click on nav link l: close listener, smooth-scroll listener, document listener
NavLinkClick(l) ==
    /\ MenuEvent(Event("navLinkClick", l, ""),
                 documentClickListener(navLinkCloseListener(menu, innerWidth),
                                       innerWidth, TRUE, FALSE),
                 smoothScrollListener(navLinkItems[l]))
    /\ UNCHANGED <<innerWidth, resizeTimer, timeouts, sinceResize, burst>>

\* click inside the nav panel, not on a link
NavPanelClick ==
    /\ MenuEvent(Event("navPanelClick", 0, ""),
                 documentClickListener(menu, innerWidth, TRUE, FALSE),
                 NoEffect)
    /\ UNCHANGED <<innerWidth, resizeTimer, timeouts, sinceResize, burst>>

\* click outside both the toggle and the nav panel
OutsideClick ==
    /\ MenuEvent(Event("outsideClick", 0, ""),
                 documentClickListener(menu, innerWidth, FALSE, FALSE),
                 NoEffect)
    /\ UNCHANGED <<innerWidth, resizeTimer, timeouts, sinceResize, burst>>

KeyDown(key) ==
    /\ MenuEvent(Event("keydown", 0, key), keydownListener(menu, key), NoEffect)
    /\ UNCHANGED <<innerWidth, resizeTimer, timeouts, sinceResize, burst>>

\* the viewport becomes w wide and the resize event is dispatched:
\* menu part, then clearTimeout(resizeTimer) and a new setTimeout.
\* A timeout that is due at this instant runs before the event.
Resize(w) ==
    /\ ~TimeoutDue
    /\ innerWidth' = w
    /\ MenuEvent(Event("resize", w, ""), resizeListener(menu, w), NoEffect)
    /\ timeouts' = resizeDebounce(timeouts, resizeTimer)
    /\ resizeTimer' = TRUE
    /\ sinceResize' = 0
    /\ burst' = [events |-> IF timeouts # <<>> THEN Min(burst.events + 1, 2) ELSE 1,
                 runs   |-> 0]

\* a due timeout runs its callback: console.log only
ResizeTimerFire ==
    /\ \E i \in DOMAIN timeouts :
        /\ timeouts[i] <= 0
        /\ timeouts' = RemoveAt(timeouts, i)
        /\ resizeTimer' = (resizeTimer /\ i # Len(timeouts))
    /\ burst' = [burst EXCEPT !.runs = Min(@ + 1, 2)]
    /\ ev' = Event("resizeTimer", sinceResize, "")
    /\ pre' = menu
    /\ out' = NoEffect
    /\ UNCHANGED <<menu, innerWidth, scrollY, headerScrolled, isScrolling,
                   rafQueue, linkActive, sections, scrollSeen, sinceResize>>
    /\ UNCHANGED pageVars

\* TimeStep ms pass; time does not pass a due timeout
Tick ==
    /\ ~TimeoutDue
    /\ timeouts' = [i \in DOMAIN timeouts |-> timeouts[i] - TimeStep]
    /\ sinceResize' = IF sinceResize < 0 THEN sinceResize
                      ELSE Min(sinceResize + TimeStep, DebounceDelay + TimeStep)
    /\ UNCHANGED <<menu, innerWidth, scrollY, headerScrolled, isScrolling,
                   rafQueue, linkActive, sections, resizeTimer, scrollSeen,
                   ev, pre, out, burst>>
    /\ UNCHANGED pageVars

\* the page scrolls to y and the scroll event is dispatched:
\* header listener (line 88) first, then the nav listener (line 157)
Scroll(y) ==
    LET first  == headerScrollListener(isScrolling)
        second == navScrollListener(first[2])
    IN  /\ scrollY' = y
        /\ isScrolling' = first[2]
        /\ rafQueue' = rafQueue \o first[1] \o second
        /\ scrollSeen' = TRUE
        /\ ev' = Event("scroll", y, IF isScrolling THEN "coalesced" ELSE "")
        /\ pre' = menu
        /\ out' = NoEffect
        /\ UNCHANGED <<menu, innerWidth, headerScrolled, linkActive, sections,
                       resizeTimer>>
        /\ UNCHANGED <<pageVars, clockVars>>

\* the next frame: every queued callback runs
AnimationFrame ==
    /\ rafQueue # <<>>
    /\ LET st == RunCallbacks(rafQueue,
                    [scrolled |-> headerScrolled, flag |-> isScrolling,
                     active |-> linkActive])
       IN  /\ headerScrolled' = st.scrolled
           /\ isScrolling' = st.flag
           /\ linkActive' = st.active
    /\ rafQueue' = <<>>
    /\ ev' = Event("animationFrame", PendingHeaderUpdates(rafQueue), "")
    /\ pre' = menu
    /\ out' = NoEffect
    /\ UNCHANGED <<menu, innerWidth, scrollY, sections, resizeTimer, scrollSeen>>
    /\ UNCHANGED <<pageVars, clockVars>>

Next ==
    \/ ToggleClick
    \/ \E l \in Links : NavLinkClick(l)
    \/ NavPanelClick
    \/ OutsideClick
    \/ \E key \in Keys : KeyDown(key)
    \/ \E w \in Widths : Resize(w)
    \/ ResizeTimerFire
    \/ Tick
    \/ \E y \in ScrollOffsets : Scroll(y)
    \/ AnimationFrame

Spec == Init /\ [][Next]_vars

----------------------------------------------------------------------------
(* updateActiveNav on its own: the function is applied at arbitrary scroll *)
(* offsets of a document with non-overlapping sections.                    *)

ScrollPosition(y) ==
    /\ scrollY' = y
    /\ ev' = Event("scrollPosition", y, "")
    /\ UNCHANGED <<menu, innerWidth, headerScrolled, isScrolling, rafQueue,
                   linkActive, sections, resizeTimer, scrollSeen, pre, out>>
    /\ UNCHANGED <<pageVars, clockVars>>

UpdateActiveNavRun ==
    /\ linkActive' = updateActiveNav(sections, scrollY, linkActive)
    /\ ev' = Event("updateActiveNav", scrollY, "")
    /\ UNCHANGED <<menu, innerWidth, scrollY, headerScrolled, isScrolling,
                   rafQueue, sections, resizeTimer, scrollSeen, pre, out>>
    /\ UNCHANGED <<pageVars, clockVars>>

NextNav ==
    \/ \E y \in ScrollOffsets : ScrollPosition(y)
    \/ UpdateActiveNavRun

SpecNav == Init /\ [][NextNav]_vars

----------------------------------------------------------------------------
(* Frames are rendered: a requested animation-frame callback is run.       *)

SpecFair == Init /\ [][Next]_vars /\ WF_vars(AnimationFrame)

----------------------------------------------------------------------------
(* Page lifecycle: DOMContentLoaded, load and the intersection observer,   *)
(* together with every event of Next, on one layout and with fewer scroll  *)
(* offsets and links.                                                      *)

Revealed(style) == style.opacity = "1" /\ style.transform = "translateY(0)"

PageEvent(e) ==
    /\ ev' = e
    /\ pre' = menu
    /\ out' = NoEffect
    /\ UNCHANGED <<menu, innerWidth, scrollY, headerScrolled, isScrolling,
                   rafQueue, linkActive, sections, resizeTimer, scrollSeen,
                   anchors>>
    /\ UNCHANGED clockVars

\* document.addEventListener('DOMContentLoaded', ...) of lines 186-195
DOMContentLoaded ==
    /\ ~domContentLoaded
    /\ domContentLoaded' = TRUE
    /\ animStyle' = [e \in AnimElems |-> HiddenStyle]
    /\ PageEvent(Event("DOMContentLoaded", 0, ""))
    /\ UNCHANGED bodyLoaded

\* window.addEventListener('load', ...) of lines 223-225
Load ==
    /\ domContentLoaded /\ ~bodyLoaded
    /\ bodyLoaded' = TRUE
    /\ PageEvent(Event("load", 0, ""))
    /\ UNCHANGED <<animStyle, domContentLoaded>>

\* the observer callback with entries for the observed elements in S;
\* isIntersecting[e] is the entry's flag
Intersection(S, isIntersecting) ==
    /\ domContentLoaded
    /\ animStyle' = [e \in AnimElems |->
                        IF e \in S
                        THEN revealOnEntry(animStyle[e], isIntersecting[e])
                        ELSE animStyle[e]]
    /\ PageEvent(Event("intersection", Cardinality(S),
                       IF \E e \in S : ~isIntersecting[e] /\ Revealed(animStyle[e])
                       THEN "exitRevealed" ELSE ""))
    /\ UNCHANGED <<domContentLoaded, bodyLoaded>>

InitPage ==
    /\ Init
    /\ sections = Layout(0, 100)
    /\ scrollY = 0

NextPage ==
    \/ DOMContentLoaded
    \/ Load
    \/ \E S \in SUBSET AnimElems \ {{}} : \E f \in [S -> BOOLEAN] : Intersection(S, f)
    \/ ToggleClick
    \/ \E l \in {1, 5} : NavLinkClick(l)
    \/ NavPanelClick
    \/ OutsideClick
    \/ \E key \in Keys : KeyDown(key)
    \/ \E w \in Widths : Resize(w)
    \/ ResizeTimerFire
    \/ Tick
    \/ \E y \in {0, HeaderThreshold + 1} : Scroll(y)
    \/ AnimationFrame

SpecPage == InitPage /\ [][NextPage]_vars

----------------------------------------------------------------------------
(* A document without the toggle control: menuToggle is null.  Line 47     *)
(* skips the toggle's own listener; the other listeners are registered as  *)
(* before.  The nav panel cannot become 'active', so the keydown and       *)
(* resize listeners never reach closeMenu; the click listeners do.         *)

\* closeMenu(): line 40 runs, line 41 reads classList of null and throws
closeMenuNoToggle(m) ==
    [menu |-> [m EXCEPT !.navLinksActive = FALSE], threw |-> TRUE]

\* the nav link click listener of lines 52-58
navLinkCloseListenerNoToggle(m, w) ==
    IF w <= MobileBreakpoint
    THEN closeMenuNoToggle(m)
    ELSE [menu |-> m, threw |-> FALSE]

\* the document click listener of lines 61-70: line 64 calls contains of null
documentClickListenerNoToggle(m, w) ==
    IF w <= MobileBreakpoint
    THEN [menu |-> m, threw |-> TRUE]
    ELSE [menu |-> m, threw |-> FALSE]

InitNoToggle ==
    /\ Init
    /\ menu.ariaExpanded = "absent"

\* click on a nav link that has an href
NavLinkClickNoToggle(l) ==
    LET first  == navLinkCloseListenerNoToggle(menu, innerWidth)
        smooth == smoothScrollListener(navLinkItems[l])
        doc    == documentClickListenerNoToggle(first.menu, innerWidth)
    IN  /\ MenuEvent(Event("navLinkClick", l, ""), doc.menu,
                     [smooth EXCEPT !.threw = @ \/ first.threw \/ doc.threw])
        /\ UNCHANGED <<innerWidth, resizeTimer, timeouts, sinceResize, burst>>

\* click anywhere else in the document
DocumentClickNoToggle ==
    LET doc == documentClickListenerNoToggle(menu, innerWidth)
    IN  /\ MenuEvent(Event("documentClick", 0, ""), doc.menu,
                     [NoEffect EXCEPT !.threw = doc.threw])
        /\ UNCHANGED <<innerWidth, resizeTimer, timeouts, sinceResize, burst>>

NextNoToggle ==
    \/ \E l \in {k \in Links : navLinkItems[k].present} : NavLinkClickNoToggle(l)
    \/ DocumentClickNoToggle
    \/ \E key \in Keys : KeyDown(key)
    \/ \E w \in Widths : Resize(w)
    \/ ResizeTimerFire
    \/ Tick
    \/ \E y \in ScrollOffsets : Scroll(y)
    \/ AnimationFrame

SpecNoToggle == InitNoToggle /\ [][NextNoToggle]_vars

----------------------------------------------------------------------------
(* Properties *)

ClosedMenu ==
    [navLinksActive |-> FALSE, menuToggleActive |-> FALSE,
     ariaExpanded |-> "false", bodyOverflow |-> ""]

\* C1: in every reachable state the nav panel is 'active' iff the toggle is;
\* an open menu has aria-expanded 'true' and body overflow 'hidden'; a closed
\* menu has body overflow '' and aria-expanded other than 'true'.
MenuInSync ==
    /\ menu.navLinksActive <=> menu.menuToggleActive
    /\ menu.navLinksActive =>
            menu.ariaExpanded = "true" /\ menu.bodyOverflow = "hidden"
    /\ ~menu.navLinksActive =>
            menu.bodyOverflow = "" /\ menu.ariaExpanded # "true"

MenuOpenedByToggle ==
    /\ ev.kind = "toggleClick"
    /\ menu.navLinksActive /\ menu.menuToggleActive
    /\ menu.ariaExpanded = "true" /\ menu.bodyOverflow = "hidden"

\* C2 as stated: two toggleMenu calls in a row, from any reachable state,
\* give back the menu state (classes, aria-expanded value or absence, body
\* overflow) that held before the first call.
ToggleTwiceRestoresAll ==
    [][(ev.kind = "toggleClick" /\ ev'.kind = "toggleClick" /\ ev'.arg = 2
            /\ pre' = menu) => menu' = pre]_vars

\* C2 as amended: two toggleMenu calls in a row give back both classes and
\* the body overflow; aria-expanded is given back when the attribute was
\* present before the first call, and is 'false' when it was absent.
ToggleTwiceRestoresPresent ==
    [][(ev.kind = "toggleClick" /\ ev'.kind = "toggleClick" /\ ev'.arg = 2
            /\ pre' = menu) =>
            menu' = [pre EXCEPT !.ariaExpanded =
                        IF @ = "absent" THEN "false" ELSE @]]_vars

ToggledTwice ==
    /\ ev.kind = "toggleClick" /\ ev.arg = 2
    /\ menu.ariaExpanded = "true" /\ menu.navLinksActive

\* C3: whenever a header update is waiting for the next frame, an
\* updateActiveNav run requested by the same scroll event is waiting too.
NavUpdateScheduledWithHeader ==
    (\E i \in DOMAIN rafQueue : rafQueue[i] = "handleScroll")
        => (\E j \in DOMAIN rafQueue : rafQueue[j] = "updateActiveNav")

\* C4: after each updateActiveNav run at most one nav link is 'active', an
\* active link's section spans scrollY + 150, and when no section spans
\* scrollY + 150 no link is 'active'.
ActiveLinkMatchesScroll ==
    ev.kind = "updateActiveNav" =>
        LET scrollPos == scrollY + NavLookAhead
            Spanning == {i \in DOMAIN sections : InSpan(sections[i], scrollPos)}
            Active   == {l \in Links : linkActive[l]}
        IN  /\ Cardinality(Active) <= 1
            /\ \A l \in Active : \E i \in Spanning :
                    navLinkItems[l] = Href(<<"#">> \o sections[i].id)
            /\ Spanning = {} => Active = {}

\* C5: once a scroll event has been handled, whenever no header update is
\* pending the header has 'scrolled' iff the current scrollY > 100.
HeaderReflectsScroll ==
    (scrollSeen /\ ~isScrolling) =>
        (headerScrolled <=> scrollY > HeaderThreshold)

HeaderScrolledAfterFrame ==
    /\ ev.kind = "animationFrame" /\ scrollSeen /\ ~isScrolling
    /\ headerScrolled /\ scrollY > HeaderThreshold

\* C6: a resize event at width > 768 with the menu open leaves the menu
\* closed (no 'active' class, aria-expanded 'false', body overflow ''); a
\* resize event at width <= 768 leaves the menu state unchanged.
ResizeClosesMenu ==
    ev.kind = "resize" =>
        /\ (ev.arg > MobileBreakpoint /\ pre.navLinksActive) => menu = ClosedMenu
        /\ ev.arg <= MobileBreakpoint => menu = pre

ResizedToDesktopWhileOpen ==
    /\ ev.kind = "resize" /\ ev.arg > MobileBreakpoint
    /\ pre.navLinksActive /\ menu = ClosedMenu

\* C7: at width <= 768, after a click on a nav link the menu is closed, and
\* after a click outside the toggle and the panel with the menu open the
\* menu is closed; both with aria-expanded 'false' and body overflow ''.
MobileClickClosesMenu ==
    innerWidth <= MobileBreakpoint =>
        /\ ev.kind = "navLinkClick" => menu = ClosedMenu
        /\ (ev.kind = "outsideClick" /\ pre.navLinksActive) => menu = ClosedMenu

MobileClickClosedOpenMenu ==
    /\ innerWidth <= MobileBreakpoint
    /\ ev.kind \in {"navLinkClick", "outsideClick"}
    /\ pre.navLinksActive /\ menu = ClosedMenu

\* C8: Escape with the menu open closes it; Escape with the menu closed and
\* any other key leave the whole menu state unchanged.
EscapeClosesMenu ==
    ev.kind = "keydown" =>
        IF ev.key = "Escape" /\ pre.navLinksActive
        THEN menu = ClosedMenu
        ELSE menu = pre

EscapeClosedOpenMenu ==
    /\ ev.kind = "keydown" /\ ev.key = "Escape"
    /\ pre.navLinksActive /\ menu = ClosedMenu

\* C9: a click on a nav link whose href is '#' + the id of an element of
\* the document calls preventDefault and requests a scroll to exactly
\* target.offsetTop - header.offsetHeight.
FragmentClickScrollsToTarget ==
    \A l \in Links : \A i \in DOMAIN sections :
        (/\ ev.kind = "navLinkClick" /\ ev.arg = l
         /\ navLinkItems[l] = Href(<<"#">> \o sections[i].id))
        => /\ out.defaultPrevented
           /\ out.scrollTo = << sections[i].offsetTop - HeaderOffsetHeight >>

FragmentClickWhileOpenOnDesktop ==
    /\ ev.kind = "navLinkClick" /\ navLinkItems[ev.arg] = Href(<<"#", "b">>)
    /\ out.defaultPrevented /\ out.scrollTo # <<>>
    /\ pre.navLinksActive /\ innerWidth > MobileBreakpoint

\* C10: a click on a nav link whose href does not start with '#', or whose
\* fragment names no element (the bare '#' included), neither calls
\* preventDefault nor requests a scroll, and throws nothing.
OtherClickPassesThrough ==
    \A l \in Links :
        (/\ ev.kind = "navLinkClick" /\ ev.arg = l
         /\ navLinkItems[l].present
         /\ \/ navLinkItems[l].chars = <<>>
            \/ navLinkItems[l].chars[1] # "#"
            \/ \A i \in DOMAIN sections :
                    navLinkItems[l].chars # <<"#">> \o sections[i].id)
        => /\ ~out.defaultPrevented
           /\ out.scrollTo = <<>>
           /\ ~out.threw

BareHashClickPassedThrough ==
    /\ ev.kind = "navLinkClick" /\ navLinkItems[ev.arg] = Href(<<"#">>)
    /\ out = NoEffect

\* C11: every target="_blank" anchor that had a rel attribute in the markup
\* keeps exactly that value, every one that had none has rel
\* "noopener noreferrer", in the state after initialization and after every
\* later event.
ExternalRelHardened ==
    \A i \in DOMAIN markupAnchors :
        markupAnchors[i].targetBlank =>
            anchors[i].rel = IF markupAnchors[i].rel.present
                             THEN markupAnchors[i].rel
                             ELSE Rel("noopener noreferrer")

ExternalRelAfterEvents ==
    /\ ev.kind = "navLinkClick"
    /\ \E i \in DOMAIN anchors :
            ~markupAnchors[i].rel.present /\ anchors[i].rel = Rel("noopener noreferrer")
    /\ \E i \in DOMAIN anchors :
            anchors[i].targetBlank /\ anchors[i].rel = Rel("nofollow")

\* C13: at most one header-update callback is pending at any time,
\* isScrolling is true exactly when one is pending, and a frame runs
\* handleScroll at most once however many scroll events preceded it.
ThrottleOnePending ==
    /\ PendingHeaderUpdates(rafQueue) <= 1
    /\ isScrolling <=> PendingHeaderUpdates(rafQueue) = 1
    /\ ev.kind = "animationFrame" => ev.arg <= 1

ScrollCoalesced ==
    /\ ev.kind = "scroll" /\ ev.key = "coalesced"
    /\ isScrolling /\ rafQueue = <<"handleScroll">>

\* C14 as stated: closeMenu called with the menu closed (here by a nav-link
\* click at width <= 768) leaves both classes, aria-expanded and the body
\* overflow exactly as they were, and closeMenu twice equals closeMenu once.
CloseMenuNoOpWhenClosed ==
    /\ (ev.kind = "navLinkClick" /\ innerWidth <= MobileBreakpoint
            /\ ~pre.navLinksActive) => menu = pre
    /\ closeMenu(closeMenu(menu)) = closeMenu(menu)

\* C14 as amended: closeMenu called with the menu closed leaves both classes
\* and the body overflow as they were and leaves aria-expanded as it was
\* when the attribute was present; an absent attribute becomes 'false'.
\* closeMenu twice equals closeMenu once.
CloseMenuNoOpWhenClosedPresent ==
    /\ (ev.kind = "navLinkClick" /\ innerWidth <= MobileBreakpoint
            /\ ~pre.navLinksActive) =>
            menu = [pre EXCEPT !.ariaExpanded = IF @ = "absent" THEN "false" ELSE @]
    /\ closeMenu(closeMenu(menu)) = closeMenu(menu)

ClosedMenuClosedAgain ==
    /\ ev.kind = "navLinkClick" /\ innerWidth <= MobileBreakpoint
    /\ ~pre.navLinksActive /\ pre.ariaExpanded = "false" /\ menu = pre

\* C18: one click on the toggle changes the open state exactly once at every
\* width: a closed menu is open after the whole dispatch (the document
\* listener does not close it again), an open menu is closed.
ToggleClickFlipsOnce ==
    ev.kind = "toggleClick" =>
        /\ menu.navLinksActive = ~pre.navLinksActive
        /\ menu.menuToggleActive = menu.navLinksActive
        /\ menu.ariaExpanded = BoolString(~pre.navLinksActive)

ToggleOpenedOnMobile ==
    /\ ev.kind = "toggleClick" /\ innerWidth <= MobileBreakpoint
    /\ ~pre.navLinksActive /\ menu.navLinksActive
    /\ menu.bodyOverflow = "hidden"

\* C15: at most one deferred resize callback is pending at any time; the
\* handle in resizeTimer names it.
OneResizeCallbackPending ==
    /\ Len(timeouts) <= 1
    /\ resizeTimer <=> Len(timeouts) = 1

ResizeReplacedPendingCallback ==
    /\ ev.kind = "resize" /\ burst.events = 2
    /\ Len(timeouts) = 1 /\ timeouts[1] = DebounceDelay

\* C16: the debounced callback runs 250ms after the last resize event of a
\* burst, never while fewer than 250ms have passed since a resize event,
\* and exactly once per burst: not twice, and it has run once more than
\* 250ms have passed.
DebounceRunsOncePerBurst ==
    /\ ev.kind = "resizeTimer" => ev.arg = DebounceDelay
    /\ burst.runs <= 1
    /\ (sinceResize >= 0 /\ sinceResize < DebounceDelay) => burst.runs = 0
    /\ sinceResize > DebounceDelay => burst.runs = 1

DebounceRanAfterBurst ==
    /\ ev.kind = "resizeTimer" /\ burst.events = 2 /\ burst.runs = 1
    /\ timeouts = <<>>

\* C12: with the toggle control absent from the document, no listener
\* throws, whatever the sequence of events.
NoHandlerThrows ==
    ~out.threw

\* C17: once an element has been revealed (opacity '1', transform
\* 'translateY(0)') no later event gives it another style.
RevealIsOneShot ==
    [][\A e \in AnimElems : Revealed(animStyle[e]) => Revealed(animStyle'[e])]_vars

RevealedElementLeftViewport ==
    /\ ev.kind = "intersection" /\ ev.key = "exitRevealed"
    /\ \E e \in AnimElems : Revealed(animStyle[e])

\* C19: with frames being rendered, a set isScrolling flag is eventually
\* cleared, and every scroll event is eventually followed by a frame that
\* runs handleScroll.
ThrottleNeverStuck ==
    /\ isScrolling ~> ~isScrolling
    /\ (ev.kind = "scroll") ~> (ev.kind = "animationFrame" /\ ev.arg = 1)

ThrottleReleasedByFrame ==
    /\ ev.kind = "animationFrame" /\ ev.arg = 1
    /\ scrollSeen /\ ~isScrolling /\ rafQueue = <<>>
    /\ ~headerScrolled

\* C20: the menu state is unchanged by a click inside the nav panel off the
\* links, by an outside click or a nav-link click at width > 768, by scroll
\* events, animation frames, the debounce timeout, intersection callbacks
\* and the load event.
NonTriggersLeaveMenu ==
    (\/ ev.kind \in {"navPanelClick", "scroll", "animationFrame", "resizeTimer",
                     "intersection", "load"}
     \/ (ev.kind \in {"outsideClick", "navLinkClick"}
            /\ innerWidth > MobileBreakpoint))
    => menu = pre

PanelClickLeftMenuOpen ==
    /\ ev.kind = "navPanelClick" /\ innerWidth <= MobileBreakpoint
    /\ pre.navLinksActive /\ menu = pre /\ bodyLoaded

====
